---- MODULE Spec2Model ----
(***************************************************************************)
(* A model of howm's X event handlers (src/src/handler.c): handle_event    *)
(* and the handlers it dispatches to.  One step of the model is the        *)
(* delivery of one X event and the complete run of its handler.            *)
(*                                                                         *)
(* The client registry, the workspace/monitor model, the layout engine and *)
(* the focus subsystem live in other files of howm (client.c, workspace.c, *)
(* layout.c, monitor.c); the handlers only call them.  Their effect on the *)
(* state is modelled from spec.md section 6, and every call a handler      *)
(* makes is appended, in order, to the call log `calls`.                   *)
(***************************************************************************)
EXTENDS Integers, Sequences, FiniteSets, Bags, TLC

\* ------------------------------------------------------------------ bounds
MaxWin == 2        \* window handles are 1..MaxWin
MaxAtoms == 2      \* longest _NET_WM_WINDOW_TYPE atom list the server returns

\* ------------------------------------------------------- integer arithmetic
\* TLC's integers are 32 bits wide, so a uint32_t is held as its two 16-bit
\* halves: the value is hi * 65536 + lo
Half == 65536

\* conversion of a C int n (-2^31 <= n < 2^31) to uint32_t, the element type
\* of vals[]: n modulo 2^32
ToU32(n) == [hi |-> (n \div Half) % Half, lo |-> n % Half]
\* a uint32_t read as int32_t (how the protocol reads x and y)
AsI32(u) ==
    IF u.hi >= Half \div 2 THEN (u.hi - Half) * Half + u.lo ELSE u.hi * Half + u.lo
\* the uint32_t u is the integer n
EqU32(u, n) == n >= 0 /\ u = ToU32(n)
\* the uint32_t u is greater than the integer n
GtU32(u, n) ==
    \/ n < 0
    \/ u.hi > n \div Half
    \/ u.hi = n \div Half /\ u.lo > n % Half

Min(a, b) == IF a < b THEN a ELSE b

\* ------------------------------------------------------ protocol constants
XCB_BUTTON_PRESS == 4
XCB_ENTER_NOTIFY == 7
XCB_DESTROY_NOTIFY == 17
XCB_UNMAP_NOTIFY == 18
XCB_MAP_REQUEST == 20
XCB_CONFIGURE_NOTIFY == 22
XCB_CONFIGURE_REQUEST == 23
XCB_CLIENT_MESSAGE == 33
\* the marker bit of an event sent with SendEvent
SendEventBit == 128

XCB_BUTTON_INDEX_1 == 1

XCB_CONFIG_WINDOW_X == 1
XCB_CONFIG_WINDOW_Y == 2
XCB_CONFIG_WINDOW_WIDTH == 4
XCB_CONFIG_WINDOW_HEIGHT == 8
XCB_CONFIG_WINDOW_BORDER_WIDTH == 16
XCB_CONFIG_WINDOW_SIBLING == 32
XCB_CONFIG_WINDOW_STACK_MODE == 64

\* bit b (a power of two) is set in mask m
HasBit(m, b) == (m \div b) % 2 = 1

\* ev->response_type & ~0x80
EventKind(rt) == IF HasBit(rt, SendEventBit) THEN rt - SendEventBit ELSE rt

\* window type atoms (interned at start-up; only their identity matters)
DOCK == "DOCK"
TOOLBAR == "TOOLBAR"
NOTIFICATION == "NOTIFICATION"
DROPDOWN_MENU == "DROPDOWN_MENU"
SPLASH == "SPLASH"
POPUP_MENU == "POPUP_MENU"
TOOLTIP == "TOOLTIP"
DIALOG == "DIALOG"
\* two types the handler does not name
NORMAL == "NORMAL"
UTILITY == "UTILITY"

TypeAtoms == {DOCK, TOOLBAR, NOTIFICATION, DROPDOWN_MENU, SPLASH, POPUP_MENU,
              TOOLTIP, DIALOG, NORMAL, UTILITY}
FloatingTypes == {NOTIFICATION, DROPDOWN_MENU, SPLASH, POPUP_MENU, TOOLTIP, DIALOG}

\* client message type atoms
NET_WM_STATE == "_NET_WM_STATE"
NET_CLOSE_WINDOW == "_NET_CLOSE_WINDOW"
NET_ACTIVE_WINDOW == "_NET_ACTIVE_WINDOW"
NET_CURRENT_DESKTOP == "_NET_CURRENT_DESKTOP"
NET_WM_NAME == "_NET_WM_NAME"
NoAtom == "NONE"

\* layout modes of a workspace
ZOOM == "ZOOM"
HSTACK == "HSTACK"

\* --------------------------------------------------------------- the state
VARIABLES
    clients,      \* the registry: a bag of Client records
    monitors,     \* [monitor -> [rect, workspace_cnt, ws]]   (monitor_t)
    workspaces,   \* [<<monitor, index>> -> [bar_height, layout, c]] (workspace_t)
    mon,          \* the focused monitor
    conf,         \* the configuration (struct config), fixed after start-up
    dpy,          \* what the X server may send and answer (the environment)
    ev,           \* the event handled by the last step
    replies,      \* the server's replies to the queries of the last step
    calls         \* the calls the last step made, in order

vars == <<clients, monitors, workspaces, mon, conf, dpy, ev, replies, calls>>

Windows == 1..MaxWin
\* screen->root: a window handle that is no client window
Root == MaxWin + 1
Monitors == {1, 2}
\* mon->workspace_cnt of every monitor
WorkspaceCnt == 2
WsIndex == 0..(WorkspaceCnt - 1)
WsKeys == Monitors \X WsIndex

\* ----------------------------------------------------------------- clients
ZeroRect == [x |-> 0, y |-> 0, width |-> 0, height |-> 0]
\* the rectangle of a Client record as create_client returns it
FreshRect == ZeroRect

\* the null client pointer
NULL == [win |-> 0, ws |-> <<0, 0>>, is_floating |-> FALSE,
         is_transient |-> FALSE, rect |-> ZeroRect]

ClientSet == BagToSet(clients)
ClientsOf(cl, w) == {c \in BagToSet(cl) : c.win = w}
\* number of Client records for window w, duplicates counted
ClientCount(cl, w) ==
    LET S == ClientsOf(cl, w)
        RECURSIVE Sum(_)
        Sum(T) == IF T = {} THEN 0
                  ELSE LET c == CHOOSE c \in T : TRUE
                       IN CopiesIn(c, cl) + Sum(T \ {c})
    IN Sum(S)

\* Registry lookup over every workspace of every monitor
find_client_by_win(w) ==
    IF ClientsOf(clients, w) = {} THEN NULL
    ELSE CHOOSE c \in ClientsOf(clients, w) : TRUE

ActiveWs == <<mon, monitors[mon].ws>>

\* create_client: a new record bound to the window, in the active workspace
create_client(w) ==
    [win |-> w, ws |-> ActiveWs, is_floating |-> FALSE,
     is_transient |-> FALSE, rect |-> FreshRect]

\* one entry of the call log; arg is the tuple of the call's other arguments
Call(fn, win, arg) == [fn |-> fn, win |-> win, arg |-> arg]
B2I(b) == IF b THEN 1 ELSE 0

HandlerNames == {"button_press_event", "map_event", "destroy_event",
                 "enter_event", "configure_event", "unmap_event",
                 "client_message_event", "unhandled_event"}

\* ------------------------------------------------------------------ events
\* xcb_generic_event_t read through the casts of the handlers: one record
\* with every field some handler reads; a field an event does not carry is 0
NullEvent ==
    [response_type |-> 0, window |-> 0, event |-> 0, detail |-> 0,
     root_x |-> 0, root_y |-> 0,
     x |-> 0, y |-> 0, width |-> 0, height |-> 0, border_width |-> 0,
     sibling |-> 0, stack_mode |-> 0, value_mask |-> 0,
     type |-> NoAtom, data |-> <<0, 0, 0>>]

\* replies of the queries map_event makes; asked is FALSE for a query the
\* handler did not make, ok is FALSE for a failed (NULL) reply
NoWa == [asked |-> FALSE, ok |-> FALSE, override_redirect |-> FALSE]
NoType == [asked |-> FALSE, ok |-> FALSE, atoms |-> <<>>]
NoTransient == [asked |-> FALSE, ok |-> FALSE, win |-> 0]
NoGeom == [asked |-> FALSE, ok |-> FALSE, x |-> 0, y |-> 0, width |-> 0, height |-> 0]
NoReplies == [wa |-> NoWa, type |-> NoType, transient |-> NoTransient, geom |-> NoGeom]

\* ------------------------------------------------------------ the X server
\* dpy tells what the server may send and answer.  The server of the full
\* event loop (mode "loop") has plain windows and toolbars, and sends events
\* of every sort, with the pointer on monitor 1; the roaming server (mode
\* "roam") is the same with one window and a pointer that crosses monitors;
\* a scripted server (mode "script") always gives the replies and sends the
\* configure request that dpy names.
WaReplies ==
    {[asked |-> TRUE, ok |-> FALSE, override_redirect |-> FALSE],
     [asked |-> TRUE, ok |-> TRUE, override_redirect |-> TRUE],
     [asked |-> TRUE, ok |-> TRUE, override_redirect |-> FALSE]}

TypeReply(ok, atoms) == [asked |-> TRUE, ok |-> ok, atoms |-> atoms]
TransientReply(ok, w) == [asked |-> TRUE, ok |-> ok, win |-> w]
GeomReply(ok, x, y, w, h) ==
    [asked |-> TRUE, ok |-> ok, x |-> x, y |-> y, width |-> w, height |-> h]

SeqsUpTo(S, n) == UNION {[1..k -> S] : k \in 0..n}

\* every atom list of at most MaxAtoms atoms, and the failed query
AllTypeReplies ==
    {TypeReply(FALSE, <<>>)} \cup {TypeReply(TRUE, a) : a \in SeqsUpTo(TypeAtoms, MaxAtoms)}

AllTransientReplies ==
    {TransientReply(FALSE, 0), TransientReply(TRUE, 0), TransientReply(TRUE, Root)}

\* reported sizes around the degenerate-size guard
GeomDims == {0, 1, 2, 100}
AllGeomReplies ==
    {GeomReply(FALSE, 0, 0, 0, 0)}
    \cup {GeomReply(TRUE, 10, 20, w, h) : w \in GeomDims, h \in GeomDims}

ConfigBody(mask, x, y, w, h, bw, sib, sm) ==
    [value_mask |-> mask, x |-> x, y |-> y, width |-> w, height |-> h,
     border_width |-> bw, sibling |-> sib, stack_mode |-> sm]

Message(type, d0, d1, d2) == [type |-> type, data |-> <<d0, d1, d2>>]

\* the root x coordinates the pointer may enter a window at
PointerHome == {0}
PointerRoams == {0, 1919, 1920}

LoopServer ==
    [mode |-> "loop", type |-> NoType, transient |-> NoTransient, geom |-> NoGeom,
     config |-> ConfigBody(0, 0, 0, 0, 0, 0, 0, 0), points |-> PointerHome]

ScriptServer(type, transient, geom, config) ==
    [mode |-> "script", type |-> type, transient |-> transient, geom |-> geom,
     config |-> config, points |-> PointerHome]

\* the server of the event loop with one window and a pointer that crosses
\* to monitor 2
RoamingServer == [LoopServer EXCEPT !.mode = "roam", !.points = PointerRoams]

SrvWindows == IF dpy.mode = "loop" THEN Windows ELSE {1}

SrvWa == WaReplies

SrvTypes ==
    IF dpy.mode = "script"
    THEN {dpy.type}
    ELSE {TypeReply(TRUE, <<NORMAL>>), TypeReply(TRUE, <<SPLASH, TOOLBAR>>)}

SrvTransients ==
    IF dpy.mode = "script"
    THEN {dpy.transient}
    ELSE {TransientReply(TRUE, 0)}

SrvGeoms ==
    IF dpy.mode = "script" THEN {dpy.geom} ELSE {GeomReply(TRUE, 10, 20, 100, 50)}

SrvConfigs ==
    IF dpy.mode = "script" THEN {dpy.config}
    ELSE {ConfigBody(127, 5, 7, 300, 200, 1, 0, 0)}

SrvMessages ==
    {Message(NET_WM_STATE, 1, 7, 0), Message(NET_WM_STATE, 2, 7, 8),
     Message(NET_CLOSE_WINDOW, 0, 0, 0),
     Message(NET_ACTIVE_WINDOW, 0, 0, 0),
     Message(NET_WM_NAME, 0, 0, 0)}
    \cup {Message(NET_CURRENT_DESKTOP, i, 0, 0) : i \in 0..WorkspaceCnt}

\* the pointer stays on monitor 1 unless the server lets it roam
SrvPoints == dpy.points
SrvButtons == {1, 3}
\* Expose, plain and sent with SendEvent
SrvOthers == {12, 12 + SendEventBit}

\* ------------------------------------------------- calls into collaborators
\* remove_client(c, forced): the record leaves the registry; a workspace
\* whose focused client it was gets another of its clients, or none.
\* The set of possible [clients, workspaces] outcomes.
remove_client(cl, wss, c, forced) ==
    LET rest == cl (-) SetToBag({c})
        others == {d.win : d \in {d \in BagToSet(rest) : d.ws = c.ws}}
    IN IF c.ws \in DOMAIN wss /\ wss[c.ws].c = c.win /\ ClientsOf(rest, c.win) = {}
       THEN {[clients |-> rest, workspaces |-> [wss EXCEPT ![c.ws].c = nf]] :
                nf \in {0} \cup others}
       ELSE {[clients |-> rest, workspaces |-> wss]}

\* update_focused_client(c): c becomes the focused client of the active workspace
update_focused_client(wss, m, mons, c) ==
    [wss EXCEPT ![<<m, mons[m].ws>>].c = c.win]

\* focus_window(win): focus the client of that window, if there is one
focus_window(wss, m, mons, win) ==
    IF find_client_by_win(win) # NULL
    THEN update_focused_client(wss, m, mons, find_client_by_win(win))
    ELSE wss

\* point_to_monitor: monitors lie side by side, monitor 1 leftmost
point_to_monitor(x, y) ==
    IF x < monitors[1].rect.width THEN 1 ELSE 2

\* change_ws(index_to_workspace(m, i)): workspace i becomes m's active one
change_ws(mons, m, i) == [mons EXCEPT ![m].ws = i]

\* C integer division by two (truncates toward zero)
CDiv2(n) == IF n >= 0 THEN n \div 2 ELSE -((-n) \div 2)

\* ------------------------------------------------------------- map_event
\* the guard without the registry lookup
map_guard_nolookup(wa, w) ==
    \/ ~wa.ok
    \/ wa.override_redirect

\* line 79: the conditions under which map_event returns at once
map_guard(wa, w) ==
    \/ ~wa.ok
    \/ wa.override_redirect
    \/ find_client_by_win(w) # NULL

\* the short-circuit taken for docks only
IsDockType_dockonly(a) == a = DOCK

\* lines 95-96
IsDockType(a) == a = DOCK \/ a = TOOLBAR

\* lines 100-105
IsFloatingType(a) ==
    \/ a = NOTIFICATION
    \/ a = DROPDOWN_MENU
    \/ a = SPLASH
    \/ a = POPUP_MENU
    \/ a = TOOLTIP
    \/ a = DIALOG

\* lines 92-108: the scan of type.atoms from index i on, floating being
\* c->is_floating so far; dock tells that the scan hit the early return
RECURSIVE ScanAtoms(_, _, _)
ScanAtoms(atoms, i, floating) ==
    IF i > Len(atoms) THEN [dock |-> FALSE, is_floating |-> floating]
    ELSE IF IsDockType(atoms[i]) THEN [dock |-> TRUE, is_floating |-> floating]
    ELSE IF IsFloatingType(atoms[i]) THEN ScanAtoms(atoms, i + 1, TRUE)
    ELSE ScanAtoms(atoms, i + 1, floating)

\* a failed type query taken as the end of the handler
ScanType_failaborts(type, floating) ==
    IF type.ok THEN ScanAtoms(type.atoms, 1, floating)
    ELSE [dock |-> TRUE, is_floating |-> floating]

\* lines 89-109: nothing is scanned when the type query fails
ScanType(type, floating) ==
    IF type.ok THEN ScanAtoms(type.atoms, 1, floating)
    ELSE [dock |-> FALSE, is_floating |-> floating]

\* transient recorded, floating left as the type scan set it
SetTransient_keepfloating(c, tr) ==
    LET transient == IF tr.ok THEN tr.win ELSE 0
    IN [c EXCEPT !.is_transient = transient # 0]

\* lines 112-115: transient stays 0 when the query fails
SetTransient(c, tr) ==
    LET transient == IF tr.ok THEN tr.win ELSE 0
        is_transient == transient # 0
    IN [c EXCEPT !.is_transient = is_transient,
                 !.is_floating = IF is_transient THEN TRUE ELSE c.is_floating]

\* the size guard off by one: a reported dimension of 1 is kept
SpawnDim_offbyone(reported, dflt) == IF reported >= 1 THEN reported ELSE dflt

\* lines 121-122
SpawnDim(reported, dflt) == IF reported > 1 THEN reported ELSE dflt

\* lines 117-127
SetGeometry(c, geom) ==
    IF geom.ok /\ c.is_floating
    THEN LET w == SpawnDim(geom.width, conf.float_spawn_width)
             h == SpawnDim(geom.height, conf.float_spawn_height)
             m == monitors[mon]
             bar == workspaces[ActiveWs].bar_height
         IN [c EXCEPT !.rect =
                [width |-> w, height |-> h,
                 x |-> IF conf.center_floating
                       THEN (m.rect.width \div 2) - (w \div 2) ELSE geom.x,
                 y |-> IF conf.center_floating
                       THEN CDiv2(m.rect.height - bar - h) ELSE geom.y]]
    ELSE c

\* lines 97-99: the calls of the dock/toolbar short-circuit
DockCalls(c) ==
    <<Call("xcb_map_window", c.win, <<>>),
      Call("remove_client", c.win, <<B2I(FALSE)>>)>>

\* the window mapped before the layout is re-run
MapTailCalls_mapfirst(c) ==
    <<Call("xcb_map_window", c.win, <<>>),
      Call("arrange_windows", 0, <<>>),
      Call("update_focused_client", c.win, <<>>),
      Call("grab_buttons", c.win, <<>>)>>

\* lines 129-132
MapTailCalls(c) ==
    <<Call("arrange_windows", 0, <<>>),
      Call("xcb_map_window", c.win, <<>>),
      Call("update_focused_client", c.win, <<>>),
      Call("grab_buttons", c.win, <<>>)>>

map_event(me) ==
    \E wa \in SrvWa :
        IF map_guard(wa, me.window)
        THEN /\ ev' = me
             /\ replies' = [NoReplies EXCEPT !.wa = wa]
             /\ calls' = <<Call("map_event", me.window, <<>>)>>
             /\ UNCHANGED <<clients, monitors, workspaces, mon, conf, dpy>>
        ELSE \E type \in SrvTypes :
            LET c0 == create_client(me.window)
                scan == ScanType(type, c0.is_floating)
                c1 == [c0 EXCEPT !.is_floating = scan.is_floating]
                reg1 == clients (+) SetToBag({c1})
            IN IF scan.dock
               THEN \E r \in remove_client(reg1, workspaces, c1, FALSE) :
                    /\ clients' = r.clients
                    /\ workspaces' = r.workspaces
                    /\ ev' = me
                    /\ replies' = [NoReplies EXCEPT !.wa = wa, !.type = type]
                    /\ calls' = <<Call("map_event", me.window, <<>>),
                                  Call("create_client", me.window, <<>>)>>
                                \o DockCalls(c1)
                    /\ UNCHANGED <<monitors, mon, conf, dpy>>
               ELSE \E tr \in SrvTransients, geom \in SrvGeoms :
                    LET c2 == SetTransient(c1, tr)
                        c3 == SetGeometry(c2, geom)
                    IN /\ clients' = clients (+) SetToBag({c3})
                       /\ workspaces' =
                            update_focused_client(workspaces, mon, monitors, c3)
                       /\ ev' = me
                       /\ replies' = [wa |-> wa, type |-> type,
                                      transient |-> tr, geom |-> geom]
                       /\ calls' = <<Call("map_event", me.window, <<>>),
                                     Call("create_client", me.window, <<>>)>>
                                   \o MapTailCalls(c3)
                       /\ UNCHANGED <<monitors, mon, conf, dpy>>

\* ------------------------------------------------- destroy_event, unmap_event
\* lines 152-153, 224-225, 246-247: remove_client(c, true); arrange_windows()
RemoveCalls(c) ==
    <<Call("remove_client", c.win, <<B2I(TRUE)>>),
      Call("arrange_windows", 0, <<>>)>>

\* destroy_event re-running layout for a window that has no client
destroy_event_arranges(de) ==
    LET c == find_client_by_win(de.window)
    IN /\ ev' = de
       /\ replies' = NoReplies
       /\ IF c = NULL
          THEN /\ calls' = <<Call("destroy_event", de.window, <<>>),
                             Call("arrange_windows", 0, <<>>)>>
               /\ UNCHANGED <<clients, workspaces>>
          ELSE \E r \in remove_client(clients, workspaces, c, TRUE) :
               /\ clients' = r.clients
               /\ workspaces' = r.workspaces
               /\ calls' = <<Call("destroy_event", de.window, <<>>)>> \o RemoveCalls(c)
       /\ UNCHANGED <<monitors, mon, conf, dpy>>

\* destroy_event that leaves the record in the registry
destroy_event_keeps(de) ==
    LET c == find_client_by_win(de.window)
    IN /\ ev' = de
       /\ replies' = NoReplies
       /\ calls' = <<Call("destroy_event", de.window, <<>>)>>
                   \o (IF c = NULL THEN <<>> ELSE RemoveCalls(c))
       /\ UNCHANGED <<clients, workspaces, monitors, mon, conf, dpy>>

destroy_event(de) ==
    LET c == find_client_by_win(de.window)
    IN /\ ev' = de
       /\ replies' = NoReplies
       /\ IF c = NULL
          THEN /\ calls' = <<Call("destroy_event", de.window, <<>>)>>
               /\ UNCHANGED <<clients, workspaces>>
          ELSE \E r \in remove_client(clients, workspaces, c, TRUE) :
               /\ clients' = r.clients
               /\ workspaces' = r.workspaces
               /\ calls' = <<Call("destroy_event", de.window, <<>>)>> \o RemoveCalls(c)
       /\ UNCHANGED <<monitors, mon, conf, dpy>>

\* the guard against root-originated unmaps left out
unmap_removes_always(ue) == TRUE

\* the comparison with the root window inverted
unmap_removes_rootonly(ue) == ue.event = Root

\* line 223
unmap_removes(ue) == ue.event # Root

unmap_event(ue) ==
    LET c == find_client_by_win(ue.window)
    IN /\ ev' = ue
       /\ replies' = NoReplies
       /\ IF c = NULL
          THEN /\ calls' = <<Call("unmap_event", ue.window, <<>>)>>
               /\ UNCHANGED <<clients, workspaces>>
          ELSE IF unmap_removes(ue)
          THEN \E r \in remove_client(clients, workspaces, c, TRUE) :
               /\ clients' = r.clients
               /\ workspaces' = r.workspaces
               /\ calls' = <<Call("unmap_event", ue.window, <<>>)>> \o RemoveCalls(c)
                           \o <<Call("howm_info", 0, <<>>)>>
          ELSE /\ calls' = <<Call("unmap_event", ue.window, <<>>),
                             Call("howm_info", 0, <<>>)>>
               /\ UNCHANGED <<clients, workspaces>>
       /\ UNCHANGED <<monitors, mon, conf, dpy>>

\* ------------------------------------------------- enter_event, button_press
\* the layout test made on the monitor focused before focus_monitor
follows_mouse_oldmon(m) ==
    conf.focus_mouse /\ workspaces[ActiveWs].layout # ZOOM

\* line 173
follows_mouse(m) ==
    conf.focus_mouse /\ workspaces[<<m, monitors[m].ws>>].layout # ZOOM

enter_event(ee) ==
    LET m == point_to_monitor(ee.root_x, ee.root_y)
    IN /\ ev' = ee
       /\ replies' = NoReplies
       /\ mon' = m
       /\ IF follows_mouse(m)
          THEN /\ workspaces' = focus_window(workspaces, m, monitors, ee.event)
               /\ calls' = <<Call("enter_event", ee.event, <<>>),
                             Call("focus_monitor", 0, <<m>>),
                             Call("focus_window", ee.event, <<>>)>>
          ELSE /\ calls' = <<Call("enter_event", ee.event, <<>>),
                             Call("focus_monitor", 0, <<m>>)>>
               /\ UNCHANGED workspaces
       /\ UNCHANGED <<clients, monitors, conf, dpy>>

button_press_event(be) ==
    LET focus == conf.focus_mouse_click /\ be.detail = XCB_BUTTON_INDEX_1
        replay == IF conf.focus_mouse_click
                  THEN <<Call("xcb_allow_events", 0, <<>>), Call("xcb_flush", 0, <<>>)>>
                  ELSE <<>>
    IN /\ ev' = be
       /\ replies' = NoReplies
       /\ IF focus
          THEN /\ workspaces' = focus_window(workspaces, mon, monitors, be.event)
               /\ calls' = <<Call("button_press_event", be.event, <<>>),
                             Call("focus_window", be.event, <<>>)>> \o replay
          ELSE /\ calls' = <<Call("button_press_event", be.event, <<>>)>> \o replay
               /\ UNCHANGED workspaces
       /\ UNCHANGED <<clients, monitors, mon, conf, dpy>>

\* ---------------------------------------------------------- configure_event
\* line 192
ConfigX(ce) == ToU32(ce.x)

\* y passed through without the bar offset
ConfigY_nobar(ce) == ToU32(ce.y)

\* line 194
ConfigY(ce) ==
    ToU32(ce.y + (IF conf.bar_bottom THEN 0 ELSE workspaces[ActiveWs].bar_height))

\* the requested size passed through unclamped
Clamp_passthrough(requested, dimension, border_px) == ToU32(requested)

\* lines 196 and 198: requested against monitor dimension minus border_px.
\* The operands are 16-bit fields, promoted to int: the difference may be
\* negative, the comparison is signed, and the result is stored as uint32_t
Clamp(requested, dimension, border_px) ==
    IF requested < dimension - border_px
    THEN ToU32(requested)
    ELSE ToU32(dimension - border_px)

ConfigWidth(ce) == Clamp(ce.width, monitors[mon].rect.width, conf.border_px)
ConfigHeight(ce) == Clamp(ce.height, monitors[mon].rect.height, conf.border_px)

\* every field stored at its own index of vals[], not at i++
ConfigVals_fixedslots(ce) ==
    LET m == ce.value_mask
        Slot(bit, v) == IF HasBit(m, bit) THEN <<v>> ELSE <<ToU32(0)>>
    IN Slot(XCB_CONFIG_WINDOW_X, ConfigX(ce))
       \o Slot(XCB_CONFIG_WINDOW_Y, ConfigY(ce))
       \o Slot(XCB_CONFIG_WINDOW_WIDTH, ConfigWidth(ce))
       \o Slot(XCB_CONFIG_WINDOW_HEIGHT, ConfigHeight(ce))
       \o Slot(XCB_CONFIG_WINDOW_BORDER_WIDTH, ToU32(ce.border_width))
       \o Slot(XCB_CONFIG_WINDOW_SIBLING, ToU32(ce.sibling))
       \o Slot(XCB_CONFIG_WINDOW_STACK_MODE, ToU32(ce.stack_mode))

\* lines 191-204: vals[0..i-1]
ConfigVals(ce) ==
    LET m == ce.value_mask
        Opt(bit, v) == IF HasBit(m, bit) THEN <<v>> ELSE <<>>
    IN Opt(XCB_CONFIG_WINDOW_X, ConfigX(ce))
       \o Opt(XCB_CONFIG_WINDOW_Y, ConfigY(ce))
       \o Opt(XCB_CONFIG_WINDOW_WIDTH, ConfigWidth(ce))
       \o Opt(XCB_CONFIG_WINDOW_HEIGHT, ConfigHeight(ce))
       \o Opt(XCB_CONFIG_WINDOW_BORDER_WIDTH, ToU32(ce.border_width))
       \o Opt(XCB_CONFIG_WINDOW_SIBLING, ToU32(ce.sibling))
       \o Opt(XCB_CONFIG_WINDOW_STACK_MODE, ToU32(ce.stack_mode))

configure_event(ce) ==
    /\ ev' = ce
    /\ replies' = NoReplies
    /\ calls' = <<Call("configure_event", ce.window, <<>>),
                  Call("xcb_configure_window", ce.window, ConfigVals(ce)),
                  Call("arrange_windows", 0, <<>>)>>
    /\ UNCHANGED <<clients, monitors, workspaces, mon, conf, dpy>>

\* ----------------------------------------------------- client_message_event
\* the bounds check off by one
desktop_in_range_inclusive(cm) == cm.data[1] <= monitors[mon].workspace_cnt

\* line 252
desktop_in_range(cm) == cm.data[1] < monitors[mon].workspace_cnt

\* the second state toggle applied without the test of data word 2
StateCalls_always2(c, cm) ==
    <<Call("ewmh_process_wm_state", c.win, <<cm.data[2], cm.data[1]>>),
      Call("ewmh_process_wm_state", c.win, <<cm.data[3], cm.data[1]>>)>>

\* lines 241-243
StateCalls(c, cm) ==
    <<Call("ewmh_process_wm_state", c.win, <<cm.data[2], cm.data[1]>>)>>
    \o (IF cm.data[3] # 0
        THEN <<Call("ewmh_process_wm_state", c.win, <<cm.data[3], cm.data[1]>>)>>
        ELSE <<>>)

client_message_event(cm) ==
    LET c == find_client_by_win(cm.window)
        entry == <<Call("client_message_event", cm.window, <<>>)>>
    IN /\ ev' = cm
       /\ replies' = NoReplies
       /\ IF c # NULL /\ cm.type = NET_WM_STATE
          THEN /\ calls' = entry \o StateCalls(c, cm)
               /\ UNCHANGED <<clients, workspaces, monitors>>
          ELSE IF c # NULL /\ cm.type = NET_CLOSE_WINDOW
          THEN \E r \in remove_client(clients, workspaces, c, TRUE) :
               /\ clients' = r.clients
               /\ workspaces' = r.workspaces
               /\ calls' = entry \o RemoveCalls(c)
               /\ UNCHANGED monitors
          ELSE IF c # NULL /\ cm.type = NET_ACTIVE_WINDOW
          THEN /\ workspaces' = update_focused_client(workspaces, mon, monitors,
                                                      find_client_by_win(cm.window))
               /\ calls' = entry \o <<Call("update_focused_client", c.win, <<>>)>>
               /\ UNCHANGED <<clients, monitors>>
          ELSE IF c # NULL /\ cm.type = NET_CURRENT_DESKTOP /\ desktop_in_range(cm)
          THEN /\ monitors' = change_ws(monitors, mon, cm.data[1])
               /\ calls' = entry \o <<Call("index_to_workspace", 0, <<cm.data[1]>>),
                                      Call("change_ws", 0, <<cm.data[1]>>)>>
               /\ UNCHANGED <<clients, workspaces>>
          ELSE /\ calls' = entry
               /\ UNCHANGED <<clients, workspaces, monitors>>
       /\ UNCHANGED <<mon, conf, dpy>>

\* ------------------------------------------------------------- handle_event
unhandled_event(e) ==
    /\ ev' = e
    /\ replies' = NoReplies
    /\ calls' = <<Call("unhandled_event", 0, <<>>)>>
    /\ UNCHANGED <<clients, monitors, workspaces, mon, conf, dpy>>

\* line 283: the case label that leads to configure_event
ConfigureCase == XCB_CONFIGURE_NOTIFY

handle_event(e) ==
    LET kind == EventKind(e.response_type)
    IN CASE kind = XCB_BUTTON_PRESS -> button_press_event(e)
         [] kind = XCB_MAP_REQUEST -> map_event(e)
         [] kind = XCB_DESTROY_NOTIFY -> destroy_event(e)
         [] kind = XCB_ENTER_NOTIFY -> enter_event(e)
         [] kind = ConfigureCase -> configure_event(e)
         [] kind = XCB_UNMAP_NOTIFY -> unmap_event(e)
         [] kind = XCB_CLIENT_MESSAGE -> client_message_event(e)
         [] OTHER -> unhandled_event(e)

EventOn(rt, w) == [NullEvent EXCEPT !.response_type = rt, !.window = w]

ButtonPressEvents ==
    {[NullEvent EXCEPT !.response_type = XCB_BUTTON_PRESS, !.event = w, !.detail = d] :
        w \in SrvWindows, d \in SrvButtons}

MapRequestEvents == {EventOn(XCB_MAP_REQUEST, w) : w \in SrvWindows}

DestroyNotifyEvents == {EventOn(XCB_DESTROY_NOTIFY, w) : w \in SrvWindows}

EnterNotifyEvents ==
    {[NullEvent EXCEPT !.response_type = XCB_ENTER_NOTIFY, !.event = w, !.root_x = px] :
        w \in SrvWindows, px \in SrvPoints}

WithBody(e, b) ==
    [e EXCEPT !.value_mask = b.value_mask, !.x = b.x, !.y = b.y,
              !.width = b.width, !.height = b.height,
              !.border_width = b.border_width, !.sibling = b.sibling,
              !.stack_mode = b.stack_mode]

\* configure events name window 1 only: configure_event looks no window up
ConfigureRequestEvents ==
    {WithBody(EventOn(XCB_CONFIGURE_REQUEST, 1), b) : b \in SrvConfigs}

\* A ConfigureNotify read through xcb_configure_request_event_t: the geometry
\* fields lie at the same offsets, and the low byte of value_mask is the
\* notify's override_redirect byte
ConfigureNotifyEvents ==
    {[WithBody(EventOn(XCB_CONFIGURE_NOTIFY, 1), b) EXCEPT !.value_mask = B2I(o)] :
        b \in SrvConfigs, o \in BOOLEAN}

UnmapNotifyEvents ==
    UNION {{[EventOn(XCB_UNMAP_NOTIFY, w) EXCEPT !.event = w],
            [EventOn(XCB_UNMAP_NOTIFY + SendEventBit, w) EXCEPT !.event = Root]} :
                w \in SrvWindows}

ClientMessageEvents ==
    {[EventOn(XCB_CLIENT_MESSAGE + SendEventBit, w) EXCEPT !.type = m.type, !.data = m.data] :
        w \in SrvWindows, m \in SrvMessages}

OtherEvents == {EventOn(rt, 0) : rt \in SrvOthers}

\* ----------------------------------------------------------- specification
MonRect == [x |-> 0, y |-> 0, width |-> 1920, height |-> 1080]

Monitors0 ==
    [m \in Monitors |->
        [rect |-> [MonRect EXCEPT !.x = (m - 1) * MonRect.width],
         workspace_cnt |-> WorkspaceCnt, ws |-> 0]]

Workspaces0 ==
    [k \in WsKeys |->
        [bar_height |-> 20, layout |-> IF k[2] = 0 THEN HSTACK ELSE ZOOM, c |-> 0]]

Config(mouse, click, center, bottom) ==
    [focus_mouse |-> mouse, focus_mouse_click |-> click,
     center_floating |-> center, bar_bottom |-> bottom,
     border_px |-> 2, float_spawn_width |-> 500, float_spawn_height |-> 500]

InitCommon ==
    /\ clients = EmptyBag
    /\ mon = 1
    /\ ev = NullEvent
    /\ replies = NoReplies
    /\ calls = <<>>

Init ==
    /\ InitCommon
    /\ monitors = Monitors0
    /\ workspaces = Workspaces0
    /\ conf = Config(TRUE, TRUE, TRUE, FALSE)
    /\ dpy = LoopServer

XButtonPress == \E e \in ButtonPressEvents : handle_event(e)
XMapRequest == \E e \in MapRequestEvents : handle_event(e)
XDestroyNotify == \E e \in DestroyNotifyEvents : handle_event(e)
XEnterNotify == \E e \in EnterNotifyEvents : handle_event(e)
XConfigureRequest == \E e \in ConfigureRequestEvents : handle_event(e)
XConfigureNotify == \E e \in ConfigureNotifyEvents : handle_event(e)
XUnmapNotify == \E e \in UnmapNotifyEvents : handle_event(e)
XClientMessage == \E e \in ClientMessageEvents : handle_event(e)
XOther == \E e \in OtherEvents : handle_event(e)

Next ==
    \/ XButtonPress
    \/ XMapRequest
    \/ XDestroyNotify
    \/ XEnterNotify
    \/ XConfigureRequest
    \/ XConfigureNotify
    \/ XUnmapNotify
    \/ XClientMessage
    \/ XOther

Spec == Init /\ [][Next]_vars

\* Map requests answered by a scripted server: every type, transient-for and
\* geometry reply, for one window that is mapped and destroyed again and again
InitMap ==
    /\ InitCommon
    /\ monitors = Monitors0
    /\ workspaces = Workspaces0
    /\ conf = Config(TRUE, TRUE, TRUE, FALSE)
    /\ \E t \in AllTypeReplies, tr \in AllTransientReplies, g \in AllGeomReplies :
        dpy = ScriptServer(t, tr, g, ConfigBody(0, 0, 0, 0, 0, 0, 0, 0))

NextMap ==
    \/ XMapRequest
    \/ XDestroyNotify

SpecMap == InitMap /\ [][NextMap]_vars

\* The events that create and remove clients and move the focus by client
\* message: map-request, destroy-notify, unmap-notify and client-message
NextFocus ==
    \/ XMapRequest
    \/ XDestroyNotify
    \/ XUnmapNotify
    \/ XClientMessage

SpecFocus == Init /\ [][NextFocus]_vars

\* Pointer and focus: windows are mapped and destroyed, the pointer enters
\* them on either monitor, and client messages switch workspaces and focus;
\* focus-follows-mouse is on or off
InitEnter ==
    /\ InitCommon
    /\ monitors = Monitors0
    /\ workspaces = Workspaces0
    /\ \E mouse \in BOOLEAN : conf = Config(mouse, TRUE, TRUE, FALSE)
    /\ dpy = RoamingServer

NextEnter ==
    \/ XMapRequest
    \/ XDestroyNotify
    \/ XEnterNotify
    \/ XClientMessage

SpecEnter == InitEnter /\ [][NextEnter]_vars

\* configure_event applied to configure requests, over monitor sizes, border
\* widths, bar heights and bar positions
ConfigMasks == 0..127
ConfigPositions == {<<-32768, -32768>>, <<5, 7>>, <<32767, 32767>>}
ConfigSizes == {<<0, 0>>, <<1, 1>>, <<1918, 1078>>, <<1919, 1079>>,
                <<1920, 1080>>, <<65535, 65535>>}
ConfigBodies ==
    {ConfigBody(m, p[1], p[2], z[1], z[2], 9, Root, 1) :
        m \in ConfigMasks, p \in ConfigPositions, z \in ConfigSizes}
MonitorSizes == {<<1920, 1080>>, <<1, 1>>}
BorderWidths == {0, 1, 2, 2000}
BarHeights == {0, 20, 65535}

\* the requesting window is unmanaged, or a tiled client with the focus
InitConfigure ==
    /\ mon = 1
    /\ ev = NullEvent
    /\ replies = NoReplies
    /\ calls = <<>>
    /\ \E z \in MonitorSizes :
        monitors = [m \in Monitors |->
                        [Monitors0[m] EXCEPT !.rect.width = z[1], !.rect.height = z[2]]]
    /\ \E h \in BarHeights, managed \in BOOLEAN :
        /\ clients = IF managed
                     THEN SetToBag({[NULL EXCEPT !.win = 1, !.ws = <<1, 0>>]})
                     ELSE EmptyBag
        /\ workspaces = [k \in WsKeys |->
                            [Workspaces0[k] EXCEPT
                                !.bar_height = h,
                                !.c = IF managed /\ k = <<1, 0>> THEN 1 ELSE 0]]
    /\ \E b \in BorderWidths, bottom \in BOOLEAN :
        conf = [Config(TRUE, TRUE, TRUE, bottom) EXCEPT !.border_px = b]
    /\ \E b \in ConfigBodies :
        dpy = ScriptServer(NoType, NoTransient, NoGeom, b)

NextConfigure == \E e \in ConfigureRequestEvents : configure_event(e)

SpecConfigure == InitConfigure /\ [][NextConfigure]_vars

\* ------------------------------------------------------------ properties
\* what the last step handled
Kind == EventKind(ev.response_type)
Handled == calls # <<>>
CallNames(cs) == {cs[i].fn : i \in 1..Len(cs)}
Entry(fn, w) == <<Call(fn, w, <<>>)>>
\* the handler has read the window's type atoms, transient-for and geometry
AtStep3 == Kind = XCB_MAP_REQUEST /\ replies.type.asked
AtStep4 == Kind = XCB_MAP_REQUEST /\ replies.transient.asked
Atoms == replies.type.atoms
HasAtomIn(S) == replies.type.ok /\ \E i \in 1..Len(Atoms) : Atoms[i] \in S
TheClient == CHOOSE c \in ClientsOf(clients, ev.window) : TRUE

\* C1: a map-request for a window that already has a Client is a no-op: the
\* registry, the focus and the workspaces stay as they are, the handler makes
\* no call (no create_client, arrange_windows, xcb_map_window,
\* update_focused_client), and the window still has exactly one Client.
C1_IdempotentMapping ==
    [][(/\ EventKind(ev'.response_type) = XCB_MAP_REQUEST
        /\ ClientsOf(clients, ev'.window) # {})
       => /\ clients' = clients
          /\ workspaces' = workspaces
          /\ monitors' = monitors
          /\ mon' = mon
          /\ calls' = Entry("map_event", ev'.window)
          /\ ClientCount(clients', ev'.window) = 1]_vars

\* a second map-request, with a good attributes reply, for a managed window
C1_Witness ==
    /\ Kind = XCB_MAP_REQUEST
    /\ replies.wa.ok /\ ~replies.wa.override_redirect
    /\ calls = Entry("map_event", ev.window)
    /\ ClientCount(clients, ev.window) = 1

\* C2: every Client in the registry that is transient is floating, and a
\* map-request for a window with a non-zero transient-for target leaves a
\* Client with is_transient and is_floating set, whatever its type atoms.
C2_TransientImpliesFloating ==
    /\ \A c \in ClientSet : c.is_transient => c.is_floating
    /\ (AtStep4 /\ replies.transient.ok /\ replies.transient.win # 0)
       => /\ ClientsOf(clients, ev.window) # {}
          /\ \A c \in ClientsOf(clients, ev.window) :
                c.is_transient /\ c.is_floating

\* a transient window whose only type atoms are non-floating ones
C2_Witness ==
    /\ AtStep4
    /\ replies.transient.win # 0
    /\ replies.type.ok /\ Atoms = <<NORMAL, UTILITY>>
    /\ TheClient.is_transient /\ TheClient.is_floating

\* C3: after a map-request whose type atoms contain DOCK or TOOLBAR, at any
\* position, the window has no Client, it was mapped directly, and the handler
\* made no call after the removal: no layout, no focus, no button grabs.
C3_DockToolbarExclusion ==
    (AtStep3 /\ HasAtomIn({DOCK, TOOLBAR}))
    => /\ ClientsOf(clients, ev.window) = {}
       /\ calls = Entry("map_event", ev.window)
                  \o Entry("create_client", ev.window)
                  \o Entry("xcb_map_window", ev.window)
                  \o <<Call("remove_client", ev.window, <<0>>)>>
       /\ workspaces[ActiveWs].c # ev.window

\* a toolbar atom that follows a floating-type atom
C3_Witness ==
    /\ AtStep3
    /\ replies.type.ok /\ Len(Atoms) = 2
    /\ Atoms[1] = DIALOG /\ Atoms[2] = TOOLBAR
    /\ ClientsOf(clients, ev.window) = {}
    /\ "xcb_map_window" \in CallNames(calls)

\* the values configure_event handed to xcb_configure_window
ConfigHandled == Handled /\ calls[1].fn = "configure_event"
MaskBits == {XCB_CONFIG_WINDOW_X, XCB_CONFIG_WINDOW_Y, XCB_CONFIG_WINDOW_WIDTH,
             XCB_CONFIG_WINDOW_HEIGHT, XCB_CONFIG_WINDOW_BORDER_WIDTH,
             XCB_CONFIG_WINDOW_SIBLING, XCB_CONFIG_WINDOW_STACK_MODE}
BitsBelow(m, bit) == Cardinality({b \in MaskBits : b < bit /\ HasBit(m, b)})
\* the value applied for the field of mask bit `bit`
Applied(bit) == calls[2].arg[BitsBelow(ev.value_mask, bit) + 1]
UsableWidth == monitors[mon].rect.width - conf.border_px
UsableHeight == monitors[mon].rect.height - conf.border_px
ClampedTo(applied, requested, usable) ==
    /\ EqU32(applied, Min(requested, usable))
    /\ ~GtU32(applied, usable)

\* C4 as stated: the applied width (height) is min(requested, M - B) and
\* never exceeds M - B, for every W, M and B, B > M included.
C4_ClampAnyBorder ==
    ConfigHandled
    => /\ HasBit(ev.value_mask, XCB_CONFIG_WINDOW_WIDTH)
          => ClampedTo(Applied(XCB_CONFIG_WINDOW_WIDTH), ev.width, UsableWidth)
       /\ HasBit(ev.value_mask, XCB_CONFIG_WINDOW_HEIGHT)
          => ClampedTo(Applied(XCB_CONFIG_WINDOW_HEIGHT), ev.height, UsableHeight)

\* C4 (amended): when the border is no thicker than the monitor dimension
\* (B <= M), the applied width (height) is min(requested, M - B) and never
\* exceeds M - B.
C4_GeometryClamp ==
    ConfigHandled
    => /\ (HasBit(ev.value_mask, XCB_CONFIG_WINDOW_WIDTH) /\ UsableWidth >= 0)
          => ClampedTo(Applied(XCB_CONFIG_WINDOW_WIDTH), ev.width, UsableWidth)
       /\ (HasBit(ev.value_mask, XCB_CONFIG_WINDOW_HEIGHT) /\ UsableHeight >= 0)
          => ClampedTo(Applied(XCB_CONFIG_WINDOW_HEIGHT), ev.height, UsableHeight)

\* a request wider and taller than the usable area, clamped
C4_Witness ==
    /\ ConfigHandled
    /\ HasBit(ev.value_mask, XCB_CONFIG_WINDOW_WIDTH)
    /\ HasBit(ev.value_mask, XCB_CONFIG_WINDOW_HEIGHT)
    /\ UsableWidth = 1918 /\ ev.width = 65535
    /\ Applied(XCB_CONFIG_WINDOW_WIDTH) = ToU32(1918)
    /\ Applied(XCB_CONFIG_WINDOW_HEIGHT) = ToU32(1078)

\* C5: the applied y is the requested y plus the active workspace's bar
\* height when the bar is at the top and the requested y when it is at the
\* bottom; the applied x is the requested x.
C5_BarOffset ==
    ConfigHandled
    => /\ HasBit(ev.value_mask, XCB_CONFIG_WINDOW_Y)
          => AsI32(Applied(XCB_CONFIG_WINDOW_Y))
             = IF conf.bar_bottom THEN ev.y
               ELSE ev.y + workspaces[ActiveWs].bar_height
       /\ HasBit(ev.value_mask, XCB_CONFIG_WINDOW_X)
          => AsI32(Applied(XCB_CONFIG_WINDOW_X)) = ev.x

\* a request with x and y under a bar of height 20 at the top
C5_Witness ==
    /\ ConfigHandled
    /\ HasBit(ev.value_mask, XCB_CONFIG_WINDOW_X)
    /\ HasBit(ev.value_mask, XCB_CONFIG_WINDOW_Y)
    /\ ~conf.bar_bottom /\ workspaces[ActiveWs].bar_height = 20
    /\ ev.y = 7
    /\ AsI32(Applied(XCB_CONFIG_WINDOW_Y)) = 27

\* C6: a CURRENT-DESKTOP client message whose index is not below the active
\* monitor's workspace count calls neither index_to_workspace nor change_ws
\* and leaves every monitor's active workspace as it is; and an active
\* workspace changes only by a CURRENT-DESKTOP message that names a managed
\* window and an index below the workspace count.
C6_DesktopSwitchBounds ==
    [][/\ (/\ EventKind(ev'.response_type) = XCB_CLIENT_MESSAGE
           /\ ev'.type = NET_CURRENT_DESKTOP
           /\ ev'.data[1] >= monitors[mon].workspace_cnt)
          => /\ CallNames(calls') \cap {"index_to_workspace", "change_ws"} = {}
             /\ monitors' = monitors
             /\ mon' = mon
       /\ (monitors' # monitors)
          => /\ EventKind(ev'.response_type) = XCB_CLIENT_MESSAGE
             /\ ev'.type = NET_CURRENT_DESKTOP
             /\ ClientsOf(clients, ev'.window) # {}
             /\ ev'.data[1] < monitors[mon].workspace_cnt
             /\ monitors'[mon].ws = ev'.data[1]]_vars

\* an index equal to the workspace count, for a managed window, ignored
C6_Witness ==
    /\ Kind = XCB_CLIENT_MESSAGE
    /\ ev.type = NET_CURRENT_DESKTOP
    /\ ev.data[1] = monitors[mon].workspace_cnt
    /\ ClientsOf(clients, ev.window) # {}
    /\ calls = Entry("client_message_event", ev.window)
    /\ monitors[mon].ws = 1

\* the handler the dispatcher is to reach for an event kind
HandlerOf(kind) ==
    CASE kind = XCB_BUTTON_PRESS -> "button_press_event"
      [] kind = XCB_MAP_REQUEST -> "map_event"
      [] kind = XCB_DESTROY_NOTIFY -> "destroy_event"
      [] kind = XCB_ENTER_NOTIFY -> "enter_event"
      [] kind = XCB_CONFIGURE_REQUEST -> "configure_event"
      [] kind = XCB_UNMAP_NOTIFY -> "unmap_event"
      [] kind = XCB_CLIENT_MESSAGE -> "client_message_event"
      [] OTHER -> "unhandled_event"
HandlersIn(cs) == {i \in 1..Len(cs) : cs[i].fn \in HandlerNames}

\* C7: every event reaches exactly one handler, the one of its kind with the
\* SendEvent bit masked out (a configure-request reaches configure_event),
\* and an event of any other kind reaches unhandled_event only, which
\* changes no registry, focus, workspace or layout state.
C7_DispatcherRouting ==
    [][/\ Cardinality(HandlersIn(calls')) = 1
       /\ calls'[1].fn = HandlerOf(EventKind(ev'.response_type))
       /\ calls'[1].fn = "unhandled_event"
          => UNCHANGED <<clients, workspaces, monitors, mon>>]_vars

\* C8: a destroy-notify, unmap-notify or client message that names a window
\* with no Client changes neither the registry nor the focus, the workspaces
\* or the layout, and makes no call: arrange_windows is not run.
C8_UnmanagedWindowIgnored ==
    [][(/\ EventKind(ev'.response_type)
              \in {XCB_DESTROY_NOTIFY, XCB_UNMAP_NOTIFY, XCB_CLIENT_MESSAGE}
        /\ ClientsOf(clients, ev'.window) = {})
       => /\ UNCHANGED <<clients, workspaces, monitors, mon>>
          /\ "arrange_windows" \notin CallNames(calls')
          /\ Len(calls') = 1]_vars

\* a destroy-notify for an unmanaged window while another window is managed
C8_Witness ==
    /\ Kind = XCB_DESTROY_NOTIFY
    /\ calls = Entry("destroy_event", ev.window)
    /\ ClientsOf(clients, ev.window) = {}
    /\ clients # EmptyBag

\* the window has no type atoms and no transient-for target
PlainWindow ==
    /\ AtStep4
    /\ replies.type.ok => Atoms = <<>>
    /\ ~replies.transient.ok \/ replies.transient.win = 0

\* C9: a map-request for an unmanaged window with no type atoms and no
\* transient-for target leaves one Client, non-floating and non-transient,
\* whose rectangle is as create_client made it; the handler re-runs layout,
\* then maps the window, then focuses the Client, then installs its button
\* grabs, and the Client is the focused client of the active workspace.
C9_PlainMap ==
    PlainWindow
    => /\ ClientCount(clients, ev.window) = 1
       /\ ~TheClient.is_floating
       /\ ~TheClient.is_transient
       /\ TheClient.rect = FreshRect
       /\ calls = Entry("map_event", ev.window)
                  \o Entry("create_client", ev.window)
                  \o Entry("arrange_windows", 0)
                  \o Entry("xcb_map_window", ev.window)
                  \o Entry("update_focused_client", ev.window)
                  \o Entry("grab_buttons", ev.window)
       /\ workspaces[ActiveWs].c = ev.window

\* the scenario of the specification: no atoms, geometry 100 by 100
C9_Witness ==
    /\ PlainWindow
    /\ replies.type.ok
    /\ replies.geom.ok /\ replies.geom.width = 100
    /\ workspaces[ActiveWs].c = ev.window
    /\ ~TheClient.is_floating

\* C10: a map-request whose type atoms contain a floating type and neither
\* DOCK nor TOOLBAR leaves a floating Client, wherever in the list the
\* floating type stands; and a floating Client with a geometry reply has the
\* floating-spawn default as width (height) when the reported width (height)
\* is at most 1, and the reported one otherwise.
C10_FloatingClassification ==
    /\ (AtStep3 /\ HasAtomIn(FloatingTypes) /\ ~HasAtomIn({DOCK, TOOLBAR}))
       => /\ ClientsOf(clients, ev.window) # {}
          /\ \A c \in ClientsOf(clients, ev.window) : c.is_floating
    /\ (AtStep4 /\ replies.geom.ok)
       => \A c \in ClientsOf(clients, ev.window) :
            c.is_floating
            => /\ c.rect.width = IF replies.geom.width <= 1
                                 THEN conf.float_spawn_width
                                 ELSE replies.geom.width
               /\ c.rect.height = IF replies.geom.height <= 1
                                  THEN conf.float_spawn_height
                                  ELSE replies.geom.height

\* a dialog atom followed by a non-floating one, reported 1 wide and 2 high
C10_Witness ==
    /\ AtStep4
    /\ replies.type.ok /\ Atoms = <<DIALOG, NORMAL>>
    /\ replies.geom.ok /\ replies.geom.width = 1 /\ replies.geom.height = 2
    /\ TheClient.is_floating
    /\ TheClient.rect.width = conf.float_spawn_width
    /\ TheClient.rect.height = 2

\* C11: in every state of the event loop (map-request, destroy-notify,
\* unmap-notify, configure and client-message events, and the others, over
\* the window handles 1..MaxWin) the registry holds at most one Client record
\* for each window handle.
C11_UniqueRegistration ==
    \A w \in Windows \cup {Root} : ClientCount(clients, w) <= 1

\* every window handle is registered, and the last event was a map-request
\* for one of them that passed the attributes check and was turned away
C11_Witness ==
    /\ \A w \in Windows : ClientCount(clients, w) = 1
    /\ Kind = XCB_MAP_REQUEST
    /\ replies.wa.ok /\ ~replies.wa.override_redirect
    /\ ~replies.type.asked

\* the step handles an unmap-notify for a window that has a Client
UnmapOfManaged ==
    /\ EventKind(ev'.response_type) = XCB_UNMAP_NOTIFY
    /\ ClientsOf(clients, ev'.window) # {}
CallCount(cs, fn) == Cardinality({i \in 1..Len(cs) : cs[i].fn = fn})

\* C12: an unmap-notify for a managed window whose reporting window is the
\* root window leaves the registry and the focus as they are and calls
\* neither remove_client nor arrange_windows, so the window still has its
\* Client; and every unmap-notify for a managed window, removed or not, ends
\* with exactly one howm_info call, the handler's last.
C12_RootUnmapGuard ==
    [][UnmapOfManaged
       => /\ calls'[Len(calls')].fn = "howm_info"
          /\ CallCount(calls', "howm_info") = 1
          /\ ev'.event = Root
             => /\ clients' = clients
                /\ workspaces' = workspaces
                /\ ClientsOf(clients', ev'.window) # {}
                /\ CallNames(calls') \cap {"remove_client", "arrange_windows"} = {}]_vars

\* a root-originated unmap of a managed, focused window: only howm_info ran
C12_Witness ==
    /\ Kind = XCB_UNMAP_NOTIFY
    /\ ev.event = Root
    /\ ClientsOf(clients, ev.window) # {}
    /\ workspaces[ActiveWs].c = ev.window
    /\ calls = Entry("unmap_event", ev.window) \o Entry("howm_info", 0)

\* the step handles a map-request that passes the attributes check
MapOfUnmanaged ==
    /\ EventKind(ev'.response_type) = XCB_MAP_REQUEST
    /\ ClientsOf(clients, ev'.window) = {}
    /\ replies'.wa.ok /\ ~replies'.wa.override_redirect

\* C13: a destroy-notify for a window that has a Client calls
\* remove_client(c, true) and then arrange_windows, once each and nothing
\* else, and leaves no Client for that handle and every other handle's
\* Client in place; and a map-request for a handle that has no Client (as
\* after its destroy), that passes the attributes check, calls create_client
\* and, unless the window is a dock or toolbar, leaves exactly one Client
\* for the handle.
C13_DestroyManaged ==
    [][/\ (/\ EventKind(ev'.response_type) = XCB_DESTROY_NOTIFY
           /\ ClientsOf(clients, ev'.window) # {})
          => /\ calls' = Entry("destroy_event", ev'.window)
                         \o <<Call("remove_client", ev'.window, <<1>>)>>
                         \o Entry("arrange_windows", 0)
             /\ ClientsOf(clients', ev'.window) = {}
             /\ \A w \in Windows \ {ev'.window} :
                    ClientsOf(clients', w) = ClientsOf(clients, w)
       /\ MapOfUnmanaged
          => /\ calls'[2] = Call("create_client", ev'.window, <<>>)
             /\ "remove_client" \notin CallNames(calls')
                => ClientCount(clients', ev'.window) = 1]_vars

\* the focused window destroyed while another window stays managed
C13_Witness ==
    /\ Kind = XCB_DESTROY_NOTIFY
    /\ "remove_client" \in CallNames(calls)
    /\ ClientsOf(clients, ev.window) = {}
    /\ clients # EmptyBag
    /\ workspaces[ActiveWs].c \notin {0, ev.window}

\* the calls of an unmap-notify that removes, with the given removal flag
UnmapCalls(w, flag) ==
    Entry("unmap_event", w)
    \o <<Call("remove_client", w, <<B2I(flag)>>)>>
    \o Entry("arrange_windows", 0)
    \o Entry("howm_info", 0)

\* C14 as stated: an unmap-notify for a managed window whose reporting
\* window is not the root window removes the Client with forced = false and
\* then re-runs layout.
C14_UnmapNonForced ==
    [][(UnmapOfManaged /\ ev'.event # Root)
       => /\ calls' = UnmapCalls(ev'.window, FALSE)
          /\ ClientsOf(clients', ev'.window) = {}]_vars

\* C14 (amended): an unmap-notify for a managed window whose reporting
\* window is not the root window removes the Client with the removal flag
\* true, as destroy does, and then re-runs layout.
C14_UnmapManaged ==
    [][(UnmapOfManaged /\ ev'.event # Root)
       => /\ calls' = UnmapCalls(ev'.window, TRUE)
          /\ ClientsOf(clients', ev'.window) = {}]_vars

\* a managed window unmapped, reported by the window itself
C14_Witness ==
    /\ Kind = XCB_UNMAP_NOTIFY
    /\ ev.event = ev.window
    /\ calls = UnmapCalls(ev.window, TRUE)
    /\ ClientsOf(clients, ev.window) = {}

\* the calls of a map-request that runs to the end of map_event
FullMapCalls(w) ==
    Entry("map_event", w) \o Entry("create_client", w)
    \o Entry("arrange_windows", 0) \o Entry("xcb_map_window", w)
    \o Entry("update_focused_client", w) \o Entry("grab_buttons", w)
DockReply(r) == r.type.ok /\ \E i \in 1..Len(r.type.atoms) : IsDockType(r.type.atoms[i])
NoTarget(tr) == ~tr.ok \/ tr.win = 0

C16_GeometryFailureDefaults ==
    (AtStep4 /\ ~replies.geom.ok)
    => \A c \in ClientsOf(clients, ev.window) :
            c.is_floating
            => /\ c.rect.width = conf.float_spawn_width
               /\ c.rect.height = conf.float_spawn_height

\* the mask bits set in m
SetBits(m) == {b \in MaskBits : HasBit(m, b)}
\* the value the handler may write for the field of a mask bit: a field the
\* handler passes through, y with or without the bar offset, a size as
\* requested or cut to the usable area
FieldValues(bit) ==
    CASE bit = XCB_CONFIG_WINDOW_X -> {ToU32(ev.x)}
      [] bit = XCB_CONFIG_WINDOW_Y ->
            {ToU32(ev.y), ToU32(ev.y + workspaces[ActiveWs].bar_height)}
      [] bit = XCB_CONFIG_WINDOW_WIDTH -> {ToU32(ev.width), ToU32(UsableWidth)}
      [] bit = XCB_CONFIG_WINDOW_HEIGHT -> {ToU32(ev.height), ToU32(UsableHeight)}
      [] bit = XCB_CONFIG_WINDOW_BORDER_WIDTH -> {ToU32(ev.border_width)}
      [] bit = XCB_CONFIG_WINDOW_SIBLING -> {ToU32(ev.sibling)}
      [] bit = XCB_CONFIG_WINDOW_STACK_MODE -> {ToU32(ev.stack_mode)}

\* C17: for every value mask 0..127 the value list handed to
\* xcb_configure_window has as many values as the mask has bits set (at most
\* 7), and the value of each set bit's field stands at the position given by
\* the number of set bits below it, so the order is x, y, width, height,
\* border-width, sibling, stack-mode; the handler then configures the
\* requesting window, managed or not, and re-runs layout once, and does
\* nothing else.
C17_ConfigureValueList ==
    ConfigHandled
    => /\ Len(calls[2].arg) = Cardinality(SetBits(ev.value_mask))
       /\ Len(calls[2].arg) <= 7
       /\ \A b \in SetBits(ev.value_mask) : Applied(b) \in FieldValues(b)
       /\ calls[2].fn = "xcb_configure_window"
       /\ calls[2].win = ev.window
       /\ Len(calls) = 3
       /\ calls[3] = Call("arrange_windows", 0, <<>>)

\* y, height and stack-mode requested for a managed window: three values
C17_Witness ==
    /\ ConfigHandled
    /\ ev.value_mask = XCB_CONFIG_WINDOW_Y + XCB_CONFIG_WINDOW_HEIGHT
                       + XCB_CONFIG_WINDOW_STACK_MODE
    /\ ClientsOf(clients, ev.window) # {}
    /\ Len(calls[2].arg) = 3
    /\ calls[2].arg[2] = ToU32(ev.height)
    /\ calls[2].arg[3] = ToU32(ev.stack_mode)
    /\ ev.stack_mode = 1 /\ ev.height = 1

\* the same request for a window that has no Client
C17_WitnessUnmanaged ==
    /\ ConfigHandled
    /\ ev.value_mask = 127
    /\ ClientsOf(clients, ev.window) = {}
    /\ Len(calls[2].arg) = 7

\* the step handles a client message for a window that has a Client
MessageToManaged ==
    /\ EventKind(ev'.response_type) = XCB_CLIENT_MESSAGE
    /\ ClientsOf(clients, ev'.window) # {}
\* the state toggle of data word i with the action of data word 0
Toggle(e, i) == Call("ewmh_process_wm_state", e.window, <<e.data[i + 1], e.data[1]>>)
NothingMutated == UNCHANGED <<clients, workspaces, monitors, mon>>

\* C18: a client message that names a managed window runs exactly one row
\* of the table.  STATE: the toggle of data word 1 with the action of data
\* word 0, followed by the toggle of data word 2 with the same action exactly
\* when data word 2 is non-zero, and nothing else.  CLOSE-WINDOW:
\* remove_client(c, true), then arrange_windows; the window has no Client
\* afterwards.  ACTIVE-WINDOW: update_focused_client(c); the Client is the
\* focused client of the active workspace and the registry is as before.
\* Any other type, and a CURRENT-DESKTOP whose index is not below the
\* workspace count: no call, nothing mutated.
C18_ClientMessageTable ==
    [][MessageToManaged
       => LET e == ev'
              entry == Entry("client_message_event", e.window)
          IN CASE e.type = NET_WM_STATE ->
                    /\ calls' = entry \o <<Toggle(e, 1)>>
                                \o (IF e.data[3] # 0 THEN <<Toggle(e, 2)>> ELSE <<>>)
                    /\ NothingMutated
               [] e.type = NET_CLOSE_WINDOW ->
                    /\ calls' = entry \o <<Call("remove_client", e.window, <<1>>)>>
                                \o Entry("arrange_windows", 0)
                    /\ ClientsOf(clients', e.window) = {}
                    /\ UNCHANGED <<monitors, mon>>
               [] e.type = NET_ACTIVE_WINDOW ->
                    /\ calls' = entry \o Entry("update_focused_client", e.window)
                    /\ workspaces'[ActiveWs].c = e.window
                    /\ \A k \in WsKeys \ {ActiveWs} : workspaces'[k] = workspaces[k]
                    /\ UNCHANGED <<clients, monitors, mon>>
               [] e.type = NET_CURRENT_DESKTOP ->
                    \/ e.data[1] < monitors[mon].workspace_cnt
                    \/ calls' = entry /\ NothingMutated
               [] OTHER -> calls' = entry /\ NothingMutated]_vars

\* a STATE message with a second property for a managed window: two toggles
C18_Witness ==
    /\ Kind = XCB_CLIENT_MESSAGE
    /\ ev.type = NET_WM_STATE
    /\ ev.data = <<2, 7, 8>>
    /\ ClientsOf(clients, ev.window) # {}
    /\ calls = Entry("client_message_event", ev.window)
               \o <<Call("ewmh_process_wm_state", ev.window, <<7, 2>>),
                    Call("ewmh_process_wm_state", ev.window, <<8, 2>>)>>

\* the monitor whose rectangle contains the root x coordinate
MonitorAt(x) ==
    CHOOSE m \in Monitors :
        /\ monitors[m].rect.x <= x
        /\ x < monitors[m].rect.x + monitors[m].rect.width

\* C19: an enter-notify makes the monitor that contains the pointer's root
\* coordinates the focused monitor, with focus-follows-mouse on or off; it
\* calls focus_window, for the window that reported the event, exactly when
\* focus-follows-mouse is on and the layout of the workspace that is active
\* on the newly focused monitor is not ZOOM, and a managed reporting window
\* is then the focused client of that workspace; it changes neither the
\* registry nor the monitors' active workspaces and does not call
\* arrange_windows.
C19_EnterFocusPolicy ==
    [][EventKind(ev'.response_type) = XCB_ENTER_NOTIFY
       => LET m == MonitorAt(ev'.root_x)
              active == <<m, monitors[m].ws>>
              follows == conf.focus_mouse /\ workspaces[active].layout # ZOOM
          IN /\ mon' = m
             /\ calls'[2] = Call("focus_monitor", 0, <<m>>)
             /\ calls' = Entry("enter_event", ev'.event) \o <<calls'[2]>>
                         \o (IF follows THEN Entry("focus_window", ev'.event) ELSE <<>>)
             /\ (follows /\ ClientsOf(clients, ev'.event) # {})
                => workspaces'[active].c = ev'.event
             /\ ~follows => workspaces' = workspaces
             /\ UNCHANGED <<clients, monitors>>
             /\ "arrange_windows" \notin CallNames(calls')]_vars

\* the pointer entered a managed window on monitor 2, whose active workspace
\* is tiled, while monitor 1 shows a ZOOM workspace: the window got the focus
C19_Witness ==
    /\ Kind = XCB_ENTER_NOTIFY
    /\ conf.focus_mouse
    /\ mon = 2
    /\ workspaces[<<1, monitors[1].ws>>].layout = ZOOM
    /\ workspaces[ActiveWs].layout # ZOOM
    /\ calls[Len(calls)] = Call("focus_window", ev.event, <<>>)
    /\ workspaces[ActiveWs].c = ev.event

\* the pointer entered a window on monitor 2, whose active workspace is ZOOM,
\* while monitor 1 shows a tiled one: no window focus
C19_WitnessZoom ==
    /\ Kind = XCB_ENTER_NOTIFY
    /\ conf.focus_mouse
    /\ mon = 2
    /\ workspaces[<<1, monitors[1].ws>>].layout # ZOOM
    /\ workspaces[ActiveWs].layout = ZOOM
    /\ Len(calls) = 2

\* the Client records of workspace k
ClientsIn(k) == {c \in ClientSet : c.ws = k}

====
